---- MODULE Spec2Model ----
(***************************************************************************)
(* Model of password_timing_demo.py: the module-level configuration, the   *)
(* four hasher factories (closures over a pre-generated salt), the         *)
(* time_hasher measurement loop and the __main__ script that runs them.    *)
(*                                                                         *)
(* The script is a single sequential thread.  An exception that nothing    *)
(* catches (the script has no try/except) ends the process: it is kept in  *)
(* exc and no statement runs afterwards.                                   *)
(***************************************************************************)
EXTENDS Integers, Sequences, FiniteSets

\* ------------------------------------------------------------------ bounds
\* Largest small repetition count tried besides the shipped REPEAT.
MaxRepeat == 5
\* Number of distinct values a random salt may take.
NumSalts == 2

\* ------------------------------------------------- configuration constants
PASSWORD == "correct horse battery staple"
REPEAT == 100
BCRYPT_COST == 12
SCRYPT_N == 16384
SCRYPT_R == 8
SCRYPT_P == 1
ARGON2_TIME_COST == 2
ARGON2_MEMORY_COST == 64000
ARGON2_PARALLELISM == 1

\* The algorithms, by the name time_hasher prints for each.
TimingOrder == <<"SHA-256", "bcrypt", "scrypt", "Argon2id">>
Algorithms == {TimingOrder[k] : k \in 1..Len(TimingOrder)}

\* Values tried for each tunable: the shipped one and one the library rejects.
RepeatValues == {-1, 0} \cup (1..MaxRepeat) \cup {REPEAT}
CostValues == {3, BCRYPT_COST}
ScryptNValues == {1000, SCRYPT_N}
MemoryCostValues == {4, ARGON2_MEMORY_COST}
SaltValues == 1..NumSalts

Configurations ==
    [PASSWORD : {PASSWORD}, REPEAT : RepeatValues,
     BCRYPT_COST : CostValues,
     SCRYPT_N : ScryptNValues, SCRYPT_R : {SCRYPT_R}, SCRYPT_P : {SCRYPT_P},
     ARGON2_TIME_COST : {ARGON2_TIME_COST},
     ARGON2_MEMORY_COST : MemoryCostValues,
     ARGON2_PARALLELISM : {ARGON2_PARALLELISM}]

\* No exception; otherwise the exception's type and the line that raised it.
None == [type |-> "None", line |-> 0]
NoSalt == 0
NoHasher == [alg |-> "none", password |-> "", params |-> <<>>, salt |-> NoSalt]
Idle == [name |-> "idle", hash_func |-> "none", repeat |-> 0, i |-> 0, start |-> 0]

VARIABLES
    config,       \* the module-level constants (lines 28-44)
    pc,           \* index of the next statement of the __main__ block
    hasher,       \* the four closures: alg -> captured values, or NoHasher
    heap,         \* the salt objects generated so far; a closure holds an index
    th,           \* the running time_hasher call (its locals), or Idle
    output,       \* the lines printed so far
    exc,          \* the uncaught exception that ended the process, or None
    now,          \* the monotonic clock (time.perf_counter), one tick per step
    saltGens,     \* history: alg -> number of salt generations
    saltGenAt,    \* history: alg -> clock at its latest salt generation (0: none)
    calls,        \* history: alg -> number of invocations of its closure
    firstCallAt,  \* history: alg -> clock at its first invocation (0: none)
    lastCallAt,   \* history: alg -> clock at its latest invocation (0: none)
    startAt,      \* history: alg -> the start clock reading (0: not read)
    endAt,        \* history: alg -> the end clock reading (0: not read)
    printedAt     \* history: alg -> clock when its result line was printed (0: not)

vars == <<config, pc, hasher, heap, th, output, exc, now, saltGens, saltGenAt,
          calls, firstCallAt, lastCallAt, startAt, endAt, printedAt>>

hist == <<saltGens, saltGenAt, calls, firstCallAt, lastCallAt, startAt, endAt,
          printedAt>>

\* ------------------------------------------------------------ the script
Stmt(kind, arg) == [kind |-> kind, arg |-> arg]

\* The script with each hasher created right before it is timed.
MainLazy ==
    << Stmt("print", "title"), Stmt("print", "password"),
       Stmt("print", "repetitions"), Stmt("print", "blank"),
       Stmt("print", "parameters"), Stmt("print", "bcrypt"),
       Stmt("print", "scrypt"), Stmt("print", "Argon2id"),
       Stmt("print", "blank"), Stmt("print", "average"),
       Stmt("make", "SHA-256"), Stmt("time", "SHA-256"),
       Stmt("make", "bcrypt"), Stmt("time", "bcrypt"),
       Stmt("make", "scrypt"), Stmt("time", "scrypt"),
       Stmt("make", "Argon2id"), Stmt("time", "Argon2id") >>

\* The script with scrypt timed before bcrypt.
MainOutOfOrder ==
    << Stmt("print", "title"), Stmt("print", "password"),
       Stmt("print", "repetitions"), Stmt("print", "blank"),
       Stmt("print", "parameters"), Stmt("print", "bcrypt"),
       Stmt("print", "scrypt"), Stmt("print", "Argon2id"),
       Stmt("print", "blank"),
       Stmt("make", "SHA-256"), Stmt("make", "bcrypt"),
       Stmt("make", "scrypt"), Stmt("make", "Argon2id"),
       Stmt("print", "average"),
       Stmt("time", "SHA-256"), Stmt("time", "scrypt"),
       Stmt("time", "bcrypt"), Stmt("time", "Argon2id") >>

\* The statements of the __main__ block, in program order.
Main ==
    << Stmt("print", "title"), Stmt("print", "password"),
       Stmt("print", "repetitions"), Stmt("print", "blank"),
       Stmt("print", "parameters"), Stmt("print", "bcrypt"),
       Stmt("print", "scrypt"), Stmt("print", "Argon2id"),
       Stmt("print", "blank"),
       Stmt("make", "SHA-256"), Stmt("make", "bcrypt"),
       Stmt("make", "scrypt"), Stmt("make", "Argon2id"),
       Stmt("print", "average"),
       Stmt("time", "SHA-256"), Stmt("time", "bcrypt"),
       Stmt("time", "scrypt"), Stmt("time", "Argon2id") >>

Running == exc = None /\ pc \in 1..Len(Main)
Exited == exc = None /\ pc = Len(Main) + 1
Crashed == exc # None
Terminated == Exited \/ Crashed

\* The text a print statement of the header writes.
PrintedLine(what) ==
    CASE what = "title" -> [kind |-> "text", name |-> "title", value |-> <<>>]
      [] what = "password" ->
            [kind |-> "config", name |-> "password", value |-> <<config.PASSWORD>>]
      [] what = "repetitions" ->
            [kind |-> "config", name |-> "repetitions", value |-> <<config.REPEAT>>]
      [] what = "bcrypt" ->
            [kind |-> "config", name |-> "bcrypt", value |-> <<config.BCRYPT_COST>>]
      [] what = "scrypt" ->
            [kind |-> "config", name |-> "scrypt",
             value |-> <<config.SCRYPT_N, config.SCRYPT_R, config.SCRYPT_P>>]
      [] what = "Argon2id" ->
            [kind |-> "config", name |-> "Argon2id",
             value |-> <<config.ARGON2_TIME_COST, config.ARGON2_MEMORY_COST,
                         config.ARGON2_PARALLELISM>>]
      [] OTHER -> [kind |-> "text", name |-> what, value |-> <<>>]

Init ==
    /\ config \in Configurations
    /\ pc = 1
    /\ hasher = [a \in Algorithms |-> NoHasher]
    /\ heap = <<>>
    /\ th = Idle
    /\ output = <<>>
    /\ exc = None
    /\ now = 1
    /\ saltGens = [a \in Algorithms |-> 0]
    /\ saltGenAt = [a \in Algorithms |-> 0]
    /\ calls = [a \in Algorithms |-> 0]
    /\ firstCallAt = [a \in Algorithms |-> 0]
    /\ lastCallAt = [a \in Algorithms |-> 0]
    /\ startAt = [a \in Algorithms |-> 0]
    /\ endAt = [a \in Algorithms |-> 0]
    /\ printedAt = [a \in Algorithms |-> 0]

\* A print statement of the header (lines 121-132, 146).
PrintHeader ==
    /\ Running /\ Main[pc].kind = "print"
    /\ output' = Append(output, PrintedLine(Main[pc].arg))
    /\ pc' = pc + 1
    /\ now' = now + 1
    /\ UNCHANGED <<config, hasher, heap, th, exc, hist>>

\* --------------------------------------------------------- the factories
\* bcrypt.gensalt(rounds=cost) raises ValueError unless 4 <= rounds <= 31.
GensaltAccepts(cost) == cost \in 4..31

\* The arguments each factory is called with (lines 135-143).
FactoryArgs(alg) ==
    CASE alg = "SHA-256" -> <<>>
      [] alg = "bcrypt" -> <<config.BCRYPT_COST>>
      [] alg = "scrypt" -> <<config.SCRYPT_N, config.SCRYPT_R, config.SCRYPT_P>>
      [] alg = "Argon2id" -> <<config.ARGON2_TIME_COST, config.ARGON2_MEMORY_COST,
                               config.ARGON2_PARALLELISM>>

\* The salts a factory's setup may produce: none for SHA-256, a salt that
\* embeds the cost for bcrypt (gensalt), 16 random bytes otherwise (os.urandom).
GeneratedSalts(alg, args) ==
    CASE alg = "SHA-256" -> {}
      [] alg = "bcrypt" -> {<<args[1], v>> : v \in SaltValues}
      [] OTHER -> {<<v>> : v \in SaltValues}

\* Whether the factory's own body raises: only make_bcrypt_hasher calls the
\* library with a tunable (line 79); the others only draw random bytes.
FactoryRaises(alg, args) == alg = "bcrypt" /\ ~GensaltAccepts(args[1])

\* The latest salt object handed out again instead of a new one.
NewSaltRefShared == IF heap = <<>> THEN Len(heap) + 1 ELSE Len(heap)

\* Each salt generation yields a new object: the next free slot of the heap.
NewSaltRef == Len(heap) + 1

StoreSalt(ref, value) ==
    [k \in 1..(IF ref > Len(heap) THEN ref ELSE Len(heap)) |->
        IF k = ref THEN value ELSE heap[k]]

\* make_sha256_hasher / make_bcrypt_hasher / make_scrypt_hasher /
\* make_argon2id_hasher, called by the statement at pc.
MakeHasher ==
    /\ Running /\ Main[pc].kind = "make"
    /\ LET alg == Main[pc].arg
           args == FactoryArgs(alg)
       IN  IF FactoryRaises(alg, args)
           THEN /\ exc' = [type |-> "ValueError", line |-> 79]
                /\ UNCHANGED <<pc, hasher, heap, saltGens, saltGenAt>>
           ELSE /\ exc' = exc
                /\ pc' = pc + 1
                /\ IF GeneratedSalts(alg, args) = {}
                   THEN /\ hasher' = [hasher EXCEPT ![alg] =
                                [alg |-> alg, password |-> config.PASSWORD,
                                 params |-> args, salt |-> NoSalt]]
                        /\ UNCHANGED <<heap, saltGens, saltGenAt>>
                   ELSE \E s \in GeneratedSalts(alg, args) :
                        /\ heap' = StoreSalt(NewSaltRef, s)
                        /\ hasher' = [hasher EXCEPT ![alg] =
                                [alg |-> alg, password |-> config.PASSWORD,
                                 params |-> args, salt |-> NewSaltRef]]
                        /\ saltGens' = [saltGens EXCEPT ![alg] = @ + 1]
                        /\ saltGenAt' = [saltGenAt EXCEPT ![alg] = now]
    /\ now' = now + 1
    /\ UNCHANGED <<config, th, output, calls, firstCallAt, lastCallAt, startAt,
                   endAt, printedAt>>

\* ------------------------------------------------------------ the closures
RECURSIVE IsPowerOfTwo(_)
IsPowerOfTwo(n) ==
    IF n < 1 THEN FALSE
    ELSE IF n = 1 THEN TRUE
    ELSE n % 2 = 0 /\ IsPowerOfTwo(n \div 2)

\* hashlib.scrypt: n a power of two greater than 1, r and p positive.
ScryptAccepts(n, r, p) == n > 1 /\ IsPowerOfTwo(n) /\ r >= 1 /\ p >= 1

\* argon2 hash_secret: at least one pass, one lane and 8 KiB per lane.
Argon2Accepts(time_cost, memory_cost, parallelism) ==
    time_cost >= 1 /\ parallelism >= 1 /\ memory_cost >= 8 * parallelism

\* The line of each closure's library call.
DoHashLine(alg) ==
    CASE alg = "SHA-256" -> 73
      [] alg = "bcrypt" -> 82
      [] alg = "scrypt" -> 91
      [] alg = "Argon2id" -> 104

\* What one call of a closure may do: return, or raise.  The library checks
\* the captured tunables on every call; a call that passes them may still run
\* out of memory.
DoHashOutcomes(h) ==
    CASE h.alg = "scrypt" /\ ~ScryptAccepts(h.params[1], h.params[2], h.params[3])
            -> {"ValueError"}
      [] h.alg = "Argon2id" /\ ~Argon2Accepts(h.params[1], h.params[2], h.params[3])
            -> {"HashingError"}
      [] OTHER -> {"ok", "MemoryError"}

\* The salt a closure passes to the library on a call.
SaltUsed(h) == IF h.salt = NoSalt THEN <<>> ELSE heap[h.salt]

\* A closure that draws its salt inside the call.
DoHashRegeneratesSalt ==
    /\ UNCHANGED config
    /\ LET alg == th.hash_func
       IN  IF hasher[alg].salt = NoSalt
           THEN UNCHANGED <<hasher, heap, saltGens, saltGenAt>>
           ELSE /\ \E v \in SaltValues :
                    heap' = [heap EXCEPT ![hasher[alg].salt] =
                                [@ EXCEPT ![Len(@)] = v]]
                /\ saltGens' = [saltGens EXCEPT ![alg] = @ + 1]
                /\ saltGenAt' = [saltGenAt EXCEPT ![alg] = now]
                /\ UNCHANGED hasher

\* What a call of a closure leaves alone: every closure body only reads its
\* captured variables and discards the digest.
DoHashFrame == UNCHANGED <<config, hasher, heap, saltGens, saltGenAt>>

\* ------------------------------------------------------------ time_hasher
\* range(repeat + 1): one iteration too many.
LoopContinuesOffByOne(i, repeat) == i <= repeat

\* range(repeat - 1): one iteration too few.
LoopStopsEarly(i, repeat) == i < repeat - 1

\* for _ in range(repeat): another iteration follows i completed ones.
LoopContinues(i, repeat) == i < repeat

\* avg_ms = (total_seconds / repeat) * 1000.0, with the clock in whole seconds
\* and the quotient in whole milliseconds; repeat is not zero.
AvgMs(total_seconds, repeat) ==
    IF repeat > 0 THEN (total_seconds * 1000) \div repeat
    ELSE 0 - ((total_seconds * 1000) \div (0 - repeat))

ResultLine(name, avg_ms, repeat) ==
    [kind |-> "result", name |-> name, value |-> <<avg_ms, repeat>>]

\* The call time_hasher(name, hasher) at pc, up to start = perf_counter().
TimeStart ==
    /\ Running /\ Main[pc].kind = "time" /\ th.name = "idle"
    /\ LET alg == Main[pc].arg
       IN  /\ th' = [name |-> alg, hash_func |-> alg, repeat |-> config.REPEAT,
                     i |-> 0, start |-> now]
           /\ startAt' = [startAt EXCEPT ![alg] = now]
    /\ now' = now + 1
    /\ UNCHANGED <<config, pc, hasher, heap, output, exc, saltGens, saltGenAt,
                   calls, firstCallAt, lastCallAt, endAt, printedAt>>

\* One iteration of the loop: hash_func() (lines 57-58).
Invoke ==
    /\ Running /\ th.name # "idle" /\ LoopContinues(th.i, th.repeat)
    /\ LET alg == th.hash_func
       IN  /\ calls' = [calls EXCEPT ![alg] = @ + 1]
           /\ firstCallAt' = [firstCallAt EXCEPT ![alg] = IF @ = 0 THEN now ELSE @]
           /\ lastCallAt' = [lastCallAt EXCEPT ![alg] = now]
           /\ \E outcome \in DoHashOutcomes(hasher[alg]) :
                IF outcome = "ok"
                THEN th' = [th EXCEPT !.i = @ + 1] /\ exc' = exc
                ELSE th' = Idle /\ exc' = [type |-> outcome, line |-> DoHashLine(alg)]
    /\ DoHashFrame
    /\ now' = now + 1
    /\ UNCHANGED <<pc, output, startAt, endAt, printedAt>>

\* After the loop: end = perf_counter(), the mean, the result line (59-63).
TimeFinish ==
    /\ Running /\ th.name # "idle" /\ ~LoopContinues(th.i, th.repeat)
    /\ endAt' = [endAt EXCEPT ![th.hash_func] = now]
    /\ IF th.repeat = 0
       THEN /\ exc' = [type |-> "ZeroDivisionError", line |-> 62]
            /\ UNCHANGED <<pc, output, printedAt>>
       ELSE /\ output' = Append(output,
                    ResultLine(th.name, AvgMs(now - th.start, th.repeat), th.repeat))
            /\ printedAt' = [printedAt EXCEPT ![th.hash_func] = now]
            /\ pc' = pc + 1
            /\ exc' = exc
    /\ th' = Idle
    /\ now' = now + 1
    /\ UNCHANGED <<config, hasher, heap, saltGens, saltGenAt, calls, firstCallAt,
                   lastCallAt, startAt>>

Next == PrintHeader \/ MakeHasher \/ TimeStart \/ Invoke \/ TimeFinish

Spec == Init /\ [][Next]_vars

\* The script is one thread that runs each statement as soon as it is reached.
FairSpec == Spec /\ WF_vars(Next)

\* ------------------------------------------------------------- properties
Salted == {"bcrypt", "scrypt", "Argon2id"}

\* The result lines printed so far, in print order.
ResultLines == SelectSeq(output, LAMBDA l : l.kind = "result")

\* How many result lines name algorithm a.
LinesFor(a) ==
    Cardinality({k \in DOMAIN output :
                    output[k].kind = "result" /\ output[k].name = a})

\* The time_hasher call for a was made and is over (returned or raised).
TimerOver(a) == startAt[a] # 0 /\ th.hash_func # a

\* The library accepts the tunables configured for a.
TunablesAccepted(a) ==
    CASE a = "bcrypt" -> GensaltAccepts(config.BCRYPT_COST)
      [] a = "scrypt" -> ScryptAccepts(config.SCRYPT_N, config.SCRYPT_R,
                                       config.SCRYPT_P)
      [] a = "Argon2id" -> Argon2Accepts(config.ARGON2_TIME_COST,
                                         config.ARGON2_MEMORY_COST,
                                         config.ARGON2_PARALLELISM)
      [] OTHER -> TRUE

\* The uncaught exception was raised by a's factory or by a's closure.
FailedIn(a) ==
    /\ exc # None
    /\ \/ exc.line = DoHashLine(a)
       \/ a = "bcrypt" /\ exc.line = 79

\* C1: for repetitions >= 1, a time_hasher call whose operation never fails
\* invokes it exactly `repetitions` times, back to back, all after the start
\* clock reading and before the end clock reading, and prints exactly one
\* result line; while it runs, no invocation precedes the start reading and
\* the count never exceeds `repetitions`.
TimerInvokesExactlyRepeat ==
    \A a \in Algorithms :
        /\ calls[a] > 0 =>
              /\ startAt[a] # 0 /\ startAt[a] < firstCallAt[a]
              /\ lastCallAt[a] - firstCallAt[a] = calls[a] - 1
        /\ config.REPEAT >= 1 => calls[a] <= config.REPEAT
        /\ (config.REPEAT >= 1 /\ endAt[a] # 0) =>
              /\ calls[a] = config.REPEAT
              /\ lastCallAt[a] < endAt[a]
              /\ endAt[a] - startAt[a] = config.REPEAT + 1
              /\ LinesFor(a) = 1
        /\ endAt[a] = 0 => LinesFor(a) = 0

TimerCompletedRun ==
    /\ config.REPEAT = 3
    /\ endAt["scrypt"] # 0
    /\ calls["scrypt"] = 3
    /\ LinesFor("scrypt") = 1

\* C2: a time_hasher call with repetitions <= 0 fails with InvalidArgument,
\* invokes the operation zero times and prints no result line.
NonPositiveRepeatRejected ==
    \A a \in Algorithms :
        (config.REPEAT <= 0 /\ TimerOver(a)) =>
            /\ exc.type = "InvalidArgument"
            /\ calls[a] = 0
            /\ LinesFor(a) = 0

\* C3: when the operation fails on its k-th invocation, it has been invoked
\* exactly k times, the error that reaches the caller is OperationFailed
\* tagged with iteration k, and no result line is printed for it.
FailureTaggedWithIteration ==
    \A a \in Algorithms :
        (exc # None /\ exc.line = DoHashLine(a)) =>
            /\ calls[a] \in 1..config.REPEAT
            /\ LinesFor(a) = 0
            /\ exc.type = "OperationFailed"
            /\ "iteration" \in DOMAIN exc
            /\ exc.iteration = calls[a]

\* C4: a failure in one algorithm (its factory or its timing), the others being
\* well configured, is caught by the script: a notice naming the algorithm is
\* printed, the run goes on, and every other algorithm is timed and printed.
FailureIsolated ==
    \A a \in Algorithms :
        (/\ FailedIn(a)
         /\ config.REPEAT >= 1
         /\ \A b \in Algorithms \ {a} : TunablesAccepted(b)) =>
            /\ \E k \in DOMAIN output :
                  output[k].kind = "notice" /\ output[k].name = a
            /\ \A b \in Algorithms \ {a} : LinesFor(b) = 1

\* C5: a tunable the library rejects makes the factory fail: no closure is
\* returned, the clock is never started for that algorithm and its operation
\* is never invoked.
RejectedTunableFailsFactory ==
    \A a \in Salted :
        ~TunablesAccepted(a) =>
            /\ hasher[a] = NoHasher
            /\ startAt[a] = 0
            /\ calls[a] = 0

\* C6: a constructed bcrypt, scrypt or Argon2id operation has had its salt
\* generated exactly once, however many times it has been invoked since; an
\* operation not constructed, and SHA-256, has none.
SaltGeneratedOncePerConstruction ==
    \A a \in Algorithms :
        saltGens[a] = IF a \in Salted /\ hasher[a] # NoHasher THEN 1 ELSE 0

SaltedOperationInvokedTwice ==
    \E a \in Salted : calls[a] >= 2 /\ saltGens[a] = 1

\* C7: every salt generation of the run precedes every start clock reading.
SaltsBeforeTiming ==
    \A a \in Algorithms : \A b \in Algorithms :
        (saltGenAt[a] # 0 /\ startAt[b] # 0) => saltGenAt[a] < startAt[b]

AllSaltsMadeAndTimingStarted ==
    /\ \A a \in Salted : saltGenAt[a] # 0
    /\ startAt["SHA-256"] # 0
    /\ calls["SHA-256"] >= 1

\* The configuration lines of the header.
ConfigNames == {"password", "repetitions", "bcrypt", "scrypt", "Argon2id"}

ConfigLinesFor(n) ==
    {k \in DOMAIN output : output[k].kind = "config" /\ output[k].name = n}

\* C8: each configuration value is printed at most once and all of them before
\* any result line; the result lines are a prefix of SHA-256, bcrypt, scrypt,
\* Argon2id, none twice, and a line is printed only after all invocations of
\* its algorithm; a run that exits has printed all four.
ReportInOrder ==
    /\ \A n \in ConfigNames : Cardinality(ConfigLinesFor(n)) <= 1
    /\ \A k \in DOMAIN output :
          output[k].kind = "result" =>
              /\ \A n \in ConfigNames :
                    \E c \in ConfigLinesFor(n) : c < k
              /\ \A l \in k..Len(output) : output[l].kind = "result"
    /\ Len(ResultLines) <= Len(TimingOrder)
    /\ \A k \in DOMAIN ResultLines :
          /\ ResultLines[k].name = TimingOrder[k]
          /\ ResultLines[k].value[2] = config.REPEAT
    /\ \A a \in Algorithms :
          /\ LinesFor(a) = IF printedAt[a] # 0 THEN 1 ELSE 0
          /\ printedAt[a] # 0 =>
                /\ th.hash_func # a
                /\ lastCallAt[a] < printedAt[a]
                /\ calls[a] = IF config.REPEAT > 0 THEN config.REPEAT ELSE 0
    /\ Exited => Len(ResultLines) = Len(TimingOrder)

ThirdLinePrinted ==
    /\ Len(ResultLines) = 3
    /\ config.REPEAT >= 2
    /\ calls["scrypt"] = config.REPEAT

\* The salt objects of two closures are distinct.
NoSaltShared ==
    \A a \in Salted : \A b \in Salted \ {a} :
        (hasher[a] # NoHasher /\ hasher[b] # NoHasher) =>
            hasher[a].salt # hasher[b].salt

\* C9: no step changes the configuration, and once an operation is
\* constructed no step (an invocation of it or of any other operation
\* included) changes what it captured or the value of its salt; an invocation
\* changes no closure and no salt at all; no two algorithms share a salt.
InvocationsLeaveStateAlone ==
    /\ [][/\ config' = config
          /\ \A a \in Algorithms :
                hasher[a] # NoHasher =>
                    /\ hasher'[a] = hasher[a]
                    /\ SaltUsed(hasher[a])' = SaltUsed(hasher[a])
          /\ calls' # calls => (hasher' = hasher /\ heap' = heap)]_vars
    /\ []NoSaltShared

TwoSaltedOperationsInUse ==
    /\ hasher["Argon2id"] # NoHasher
    /\ calls["bcrypt"] >= 2
    /\ calls["scrypt"] >= 2

\* The sum of the invocation counts of the algorithms in S.
RECURSIVE TotalCalls(_)
TotalCalls(S) ==
    IF S = {} THEN 0
    ELSE LET a == CHOOSE x \in S : TRUE IN calls[a] + TotalCalls(S \ {a})

\* C10: the run terminates; a run in which nothing failed, with a positive
\* repetition count (the shipped REPEAT included), ends with every operation
\* invoked exactly that many times, four times that in total, four result
\* lines, and each timing started only after the previous result line.
RunTerminatesComplete ==
    /\ <>Terminated
    /\ [](Terminated /\ exc = None => Exited)
    /\ [](Exited /\ config.REPEAT >= 1 =>
            /\ \A a \in Algorithms : calls[a] = config.REPEAT
            /\ TotalCalls(Algorithms) = Len(TimingOrder) * config.REPEAT
            /\ Len(ResultLines) = Len(TimingOrder)
            /\ \A k \in 2..Len(TimingOrder) :
                  printedAt[TimingOrder[k - 1]] # 0
                  /\ printedAt[TimingOrder[k - 1]] < startAt[TimingOrder[k]])

ShippedRunExited ==
    /\ Exited
    /\ config.REPEAT = REPEAT
    /\ config.BCRYPT_COST = BCRYPT_COST
    /\ config.SCRYPT_N = SCRYPT_N
    /\ config.ARGON2_MEMORY_COST = ARGON2_MEMORY_COST
    /\ TotalCalls(Algorithms) = Len(TimingOrder) * REPEAT
====
